---- MODULE Spec2Model ----
(***************************************************************************)
(* M5DialKeys: the polling loop of src/main.cpp.  One Loop step is one     *)
(* pass of loop(): M5Dial.update(), the touch zones, the encoder steps,    *)
(* the button classifier and the trailing delay(1).                        *)
(*                                                                         *)
(* Time.  millis() is a uint32_t millisecond counter.  The model keeps a   *)
(* clock value as the signed representative of the counter in a window     *)
(* around the wrap point (-1 stands for 0xFFFFFFFF, 0 for 0), so that the  *)
(* unsigned differences the code takes and its tests against 0 come out    *)
(* as on the device.  The clock advances by the delay() calls of the code  *)
(* and by the latency the environment adds between two passes.             *)
(***************************************************************************)
EXTENDS Integers, Sequences, FiniteSets, TLC

VARIABLES
    now,                 \* millis()
    enc,                 \* M5Dial.Encoder.read(): the hardware count last read
    prev_pos,            \* main.cpp:9
    shift_lock,          \* main.cpp:10
    last_touch_zone,     \* main.cpp:11
    press_start_ms,      \* main.cpp:13
    last_delete_ms,      \* main.cpp:14
    delete_mode_active,  \* main.cpp:15
    t_state,             \* M5Dial.Touch.getDetail().state
    t_x,                 \* M5Dial.Touch.getDetail().x
    btn,                 \* M5Dial.BtnA as of the last update()
    out,                 \* what the last pass emitted, in emission order
    lock_in,             \* history: shift_lock when the last pass began
    init_pos,            \* history: the position setup() read
    net,                 \* history: right steps minus left steps emitted so far
    hold,                \* history: ms the button had been down at the last update()
    entered,             \* history: long-press mode was entered during this press
    nDel,                \* history: Deletes emitted during this press
    nEnter,              \* history: Enters emitted for this press
    togs,                \* history: shift toggles since the last modifier-sensitive key
    steady,              \* history: so far the button was down and nothing else happened
    polls,               \* history: passes of loop() so far
    idle                 \* history: passes in a row, up to the last, with no raw input changed

vars == <<now, enc, prev_pos, shift_lock, last_touch_zone, press_start_ms,
          last_delete_ms, delete_mode_active, t_state, t_x, btn, out, lock_in,
          init_pos, net, hold, entered, nDel, nEnter, togs, steady, polls,
          idle>>

----------------------------------------------------------------------------
(* Program constants *)

LONG_PRESS_MS == 3000
REPEAT_MS == 500
TICKS_PER_STEP == 4
DisplayWidth == 240
ZONE_NONE == -1
ZONE_ESC == 0
ZONE_SHIFT == 1

(* Bounds of the model *)

MaxPolls == 4
MaxButtonPolls == 5
SlotMs == 20
LongWait == 3000
MaxEnc == 10
MidGap == 499
LongGap == 2991
BootMs == 100
HoldWindow == 4300
MaxIdle == 2
MaxTouchPolls == 4
MaxWrapPolls == 4
WrapLead == 2

Gaps == {0, MidGap, LongGap}
Deltas == {-5, 0, 1, 8}
ButtonDeltas == {-8, 0, 8}
TouchXs == {10, 120, 240}
InitPositions == {0, 2}
TouchStates == {"none", "touch_begin", "touch", "touch_end"}
AllTouchStates == {"none", "touch_begin", "touch", "touch_end",
                   "hold_begin", "hold", "hold_end",
                   "flick_begin", "flick", "flick_end",
                   "drag_begin", "drag", "drag_end"}
EdgeXs == {-1, 0, 119, 120, 239, 240}
TouchDeltas == {0, 4}
WrapGaps == {0, 1, LongGap}

----------------------------------------------------------------------------
(* Helpers *)

\* a - b on uint32_t, for clock values kept as signed representatives
U32Sub(a, b) == IF a - b >= 0 THEN a - b ELSE 2147483647

Abs(n) == IF n < 0 THEN -n ELSE n

\* C integer division, truncating toward zero
CDiv(a, b) == IF a >= 0 THEN a \div b ELSE -((-a) \div b)

delay(s, ms) == [s EXCEPT !.now = @ + ms]

Emit(s, k, sh) == [s EXCEPT !.out = Append(@, [key |-> k, shift |-> sh])]

CountKey(seq, keys) == Cardinality({i \in 1..Len(seq) : seq[i].key \in keys})

RightKeys == {"KEY_RIGHT_ARROW", "d"}
LeftKeys == {"KEY_DOWN_ARROW", "a"}
StepKeys == RightKeys \cup LeftKeys
EnterKeys == {"nl"}
ModifierSensitive == StepKeys \cup EnterKeys

----------------------------------------------------------------------------
(* The senders *)

sendEsc(s) == delay(delay(Emit(s, "KEY_ESC", FALSE), 2), 2)

\* Delete sent through the shift latch
sendDelete_Latched(s) ==
    delay(delay(Emit([s EXCEPT !.shift_lock = FALSE], "KEY_DELETE", s.shift_lock), 2), 2)

sendDelete(s) == delay(delay(Emit(s, "KEY_DELETE", FALSE), 2), 2)

sendArrow(s, k) == delay(delay(Emit(s, k, FALSE), 2), 2)

\* the lock left set after the key went out
sendAscii_NoClear(s, c) ==
    LET a == IF s.shift_lock THEN delay(s, 1) ELSE s
    IN  delay(Emit(a, c, s.shift_lock), 2)

sendAsciiWithOptionalShift(s, c) ==
    LET a == IF s.shift_lock THEN delay(s, 1) ELSE s
        b == delay(Emit(a, c, s.shift_lock), 2)
    IN  IF b.shift_lock THEN [b EXCEPT !.shift_lock = FALSE] ELSE b

----------------------------------------------------------------------------
(* M5Dial.update(): the touch detail and the button *)

\* The states getDetail() reports from one update() to the next.  The pass
\* that sees the finger lifted reports an end state (never none) and still
\* carries the coordinate the touch had.
TouchNext(st) ==
    CASE st = "none"        -> {"none", "touch_begin"}
      [] st = "touch_begin" -> {"touch", "touch_end", "flick_begin"}
      [] st = "touch"       -> {"touch", "touch_end", "hold_begin", "flick_begin"}
      [] st = "touch_end"   -> {"none", "touch_begin"}
      [] st = "hold_begin"  -> {"hold", "hold_end", "drag_begin"}
      [] st = "hold"        -> {"hold", "hold_end", "drag_begin"}
      [] st = "hold_end"    -> {"none", "touch_begin"}
      [] st = "flick_begin" -> {"flick", "flick_end"}
      [] st = "flick"       -> {"flick", "flick_end"}
      [] st = "flick_end"   -> {"none", "touch_begin"}
      [] st = "drag_begin"  -> {"drag", "drag_end"}
      [] st = "drag"        -> {"drag", "drag_end"}
      [] st = "drag_end"    -> {"none", "touch_begin"}

\* Button_Class after update() at msec with the debounced level raw
BtnUpdate(b, msec, raw) ==
    [press      |-> raw,
     oldPress   |-> b.press,
     lastChange |-> IF raw # b.press THEN msec ELSE b.lastChange,
     lastMsec   |-> msec]

wasPressed(b) == ~b.oldPress /\ b.press
wasReleased(b) == b.oldPress /\ ~b.press
pressedFor(b, ms) == b.press /\ U32Sub(b.lastMsec, b.lastChange) >= ms

----------------------------------------------------------------------------
(* loop(), touch part: main.cpp:112-140 *)

\* the middle column counted to the Escape zone
TouchZone_Off(st, x) ==
    IF st # "none" /\ x >= 0 /\ x < DisplayWidth
    THEN (IF x <= DisplayWidth \div 2 THEN ZONE_ESC ELSE ZONE_SHIFT)
    ELSE ZONE_NONE

\* a touch that ended classified like no touch
TouchZone_EndIsNone(st, x) ==
    IF st \notin {"none", "touch_end", "hold_end", "flick_end", "drag_end"}
       /\ x >= 0 /\ x < DisplayWidth
    THEN (IF x < DisplayWidth \div 2 THEN ZONE_ESC ELSE ZONE_SHIFT)
    ELSE ZONE_NONE

\* the column past the right edge counted to the Shift zone
TouchZone_Inclusive(st, x) ==
    IF st # "none" /\ x >= 0 /\ x <= DisplayWidth
    THEN (IF x < DisplayWidth \div 2 THEN ZONE_ESC ELSE ZONE_SHIFT)
    ELSE ZONE_NONE

TouchZone(st, x) ==
    IF st # "none" /\ x >= 0 /\ x < DisplayWidth
    THEN (IF x < DisplayWidth \div 2 THEN ZONE_ESC ELSE ZONE_SHIFT)
    ELSE ZONE_NONE

\* the touch sets the lock instead of flipping it
ToggleShift_Set(s) == Emit([s EXCEPT !.shift_lock = TRUE], "shift_toggle", FALSE)

ToggleShift(s) == Emit([s EXCEPT !.shift_lock = ~@], "shift_toggle", FALSE)

\* the zone acting whenever the touch enters it
TouchPart_OnZoneEntry(s, st, x) ==
    LET zone == TouchZone(st, x)
        a == [s EXCEPT !.last_touch_zone = zone]
    IN  IF zone # s.last_touch_zone
        THEN (IF zone = ZONE_ESC THEN sendEsc(a)
              ELSE IF zone = ZONE_SHIFT THEN ToggleShift(a)
              ELSE a)
        ELSE a

TouchPart(s, st, x) ==
    LET zone == TouchZone(st, x)
        a == [s EXCEPT !.last_touch_zone = zone]
    IN  IF st = "touch_begin"
        THEN (IF zone = ZONE_ESC THEN sendEsc(a)
              ELSE IF zone = ZONE_SHIFT THEN ToggleShift(a)
              ELSE a)
        ELSE a

----------------------------------------------------------------------------
(* loop(), encoder part: main.cpp:142-182 *)

RightStep(s) ==
    IF s.shift_lock THEN sendAsciiWithOptionalShift(s, "d")
    ELSE sendArrow(s, "KEY_RIGHT_ARROW")

LeftStep(s) ==
    IF s.shift_lock THEN sendAsciiWithOptionalShift(s, "a")
    ELSE sendArrow(s, "KEY_DOWN_ARROW")

\* the lock read once for the whole batch and cleared after it
StepLoop_LockOnce(s, i, steps, right) ==
    LET sh == s.shift_lock
        k == IF right THEN (IF sh THEN "d" ELSE "KEY_RIGHT_ARROW")
             ELSE (IF sh THEN "a" ELSE "KEY_DOWN_ARROW")
        n == IF steps > i THEN steps - i ELSE 0
    IN  [s EXCEPT !.out = @ \o [j \in 1..n |-> [key |-> k, shift |-> sh]],
                  !.now = @ + n * (IF sh THEN 3 ELSE 4),
                  !.shift_lock = IF n > 0 THEN FALSE ELSE @]

RECURSIVE StepLoop(_, _, _, _)
StepLoop(s, i, steps, right) ==
    IF i < steps
    THEN StepLoop(IF right THEN RightStep(s) ELSE LeftStep(s), i + 1, steps, right)
    ELSE s

\* the remainder dropped: prev_pos = curr
EncoderPart_Snap(s, curr) ==
    LET delta == curr - s.prev_pos
    IN  IF delta = 0 THEN s
        ELSE IF delta > 0
        THEN [StepLoop(s, 0, CDiv(delta, TICKS_PER_STEP), TRUE)
                EXCEPT !.prev_pos = curr]
        ELSE [StepLoop(s, 0, CDiv(-delta, TICKS_PER_STEP), FALSE)
                EXCEPT !.prev_pos = curr]

\* the left branch advancing prev_pos the wrong way
EncoderPart_SignSlip(s, curr) ==
    LET delta == curr - s.prev_pos
    IN  IF delta = 0 THEN s
        ELSE IF delta > 0
        THEN LET steps == CDiv(delta, TICKS_PER_STEP)
                 a == StepLoop(s, 0, steps, TRUE)
             IN  [a EXCEPT !.prev_pos = @ + steps * TICKS_PER_STEP]
        ELSE LET steps == CDiv(-delta, TICKS_PER_STEP)
                 a == StepLoop(s, 0, steps, FALSE)
             IN  [a EXCEPT !.prev_pos = @ + steps * TICKS_PER_STEP]

EncoderPart(s, curr) ==
    LET delta == curr - s.prev_pos
    IN  IF delta = 0 THEN s
        ELSE IF delta > 0
        THEN LET steps == CDiv(delta, TICKS_PER_STEP)
                 a == StepLoop(s, 0, steps, TRUE)
             IN  [a EXCEPT !.prev_pos = @ + steps * TICKS_PER_STEP]
        ELSE LET steps == CDiv(-delta, TICKS_PER_STEP)
                 a == StepLoop(s, 0, steps, FALSE)
             IN  [a EXCEPT !.prev_pos = @ - steps * TICKS_PER_STEP]

----------------------------------------------------------------------------
(* loop(), button part: main.cpp:184-218 *)

\* the release leaving long-press mode on
ReleaseInDeleteMode_Keep(s, b) == s

\* long-press mode left one pass after the release
ReleaseInDeleteMode_Late(s, b) ==
    IF s.delete_mode_active /\ ~b.press /\ ~b.oldPress
    THEN [s EXCEPT !.delete_mode_active = FALSE, !.last_delete_ms = 0]
    ELSE s

\* main.cpp:185-188
ReleaseInDeleteMode(s, b) ==
    IF s.delete_mode_active /\ wasReleased(b)
    THEN [s EXCEPT !.delete_mode_active = FALSE, !.last_delete_ms = 0]
    ELSE s

\* main.cpp:190-192
PressStart(s, b) ==
    IF wasPressed(b) THEN [s EXCEPT !.press_start_ms = s.now] ELSE s

\* the long-press start not stamping last_delete_ms
LongPressStart_NoStamp(s, b) ==
    IF ~s.delete_mode_active /\ pressedFor(b, LONG_PRESS_MS)
    THEN sendDelete([s EXCEPT !.delete_mode_active = TRUE])
    ELSE s

\* main.cpp:194-199
LongPressStart(s, b) ==
    IF ~s.delete_mode_active /\ pressedFor(b, LONG_PRESS_MS)
    THEN LET a == sendDelete([s EXCEPT !.delete_mode_active = TRUE])
         IN  [a EXCEPT !.last_delete_ms = a.now]
    ELSE s

\* the repeat waiting for more than REPEAT_MS
RepeatDelete_Strict(s, b) ==
    IF s.delete_mode_active /\ ~wasReleased(b)
    THEN LET t == s.now
         IN  IF U32Sub(t, s.last_delete_ms) > REPEAT_MS
             THEN [sendDelete(s) EXCEPT !.last_delete_ms = t]
             ELSE s
    ELSE s

\* main.cpp:201-209
RepeatDelete(s, b) ==
    IF s.delete_mode_active /\ ~wasReleased(b)
    THEN LET t == s.now
         IN  IF U32Sub(t, s.last_delete_ms) >= REPEAT_MS
             THEN [sendDelete(s) EXCEPT !.last_delete_ms = t]
             ELSE s
    ELSE s

\* the held time always computed from the clock
ShortClick_NoGuard(s, b) ==
    IF ~s.delete_mode_active /\ wasReleased(b)
    THEN LET held_ms == U32Sub(s.now, s.press_start_ms)
             a == IF held_ms < LONG_PRESS_MS
                  THEN sendAsciiWithOptionalShift(s, "nl") ELSE s
         IN  [a EXCEPT !.press_start_ms = 0]
    ELSE s

\* the click taken from the level of the button, not from its release
ShortClick_Level(s, b) ==
    IF ~s.delete_mode_active /\ ~b.press
    THEN LET held_ms == IF s.press_start_ms # 0
                        THEN U32Sub(s.now, s.press_start_ms) ELSE 0
             a == IF held_ms < LONG_PRESS_MS
                  THEN sendAsciiWithOptionalShift(s, "nl") ELSE s
         IN  [a EXCEPT !.press_start_ms = 0]
    ELSE s

\* main.cpp:211-218
ShortClick(s, b) ==
    IF ~s.delete_mode_active /\ wasReleased(b)
    THEN LET held_ms == IF s.press_start_ms # 0
                        THEN U32Sub(s.now, s.press_start_ms) ELSE 0
             a == IF held_ms < LONG_PRESS_MS
                  THEN sendAsciiWithOptionalShift(s, "nl") ELSE s
         IN  [a EXCEPT !.press_start_ms = 0]
    ELSE s

ButtonPart(s, b) ==
    ShortClick(RepeatDelete(LongPressStart(PressStart(
        ReleaseInDeleteMode(s, b), b), b), b), b)

----------------------------------------------------------------------------
(* One pass of loop() *)

\* the encoder handled before the touch
LoopBody_EncoderFirst(s, b, st, x, curr) ==
    delay(ButtonPart(TouchPart(EncoderPart(s, curr), st, x), b), 1)

LoopBody(s, b, st, x, curr) ==
    delay(ButtonPart(EncoderPart(TouchPart(s, st, x), curr), b), 1)

Init ==
    /\ now = BootMs
    /\ enc \in InitPositions
    /\ prev_pos = enc
    /\ shift_lock = FALSE
    /\ last_touch_zone = ZONE_NONE
    /\ press_start_ms = 0
    /\ last_delete_ms = 0
    /\ delete_mode_active = FALSE
    /\ t_state = "none"
    /\ t_x = 0
    /\ btn = [press |-> FALSE, oldPress |-> FALSE, lastChange |-> 0, lastMsec |-> 0]
    /\ out = <<>>
    /\ lock_in = FALSE
    /\ init_pos = enc
    /\ net = 0
    /\ hold = 0
    /\ entered = FALSE
    /\ nDel = 0
    /\ nEnter = 0
    /\ togs = 0
    /\ steady = TRUE
    /\ polls = 0
    /\ idle = 0

Poll(gap, raw, st, x, curr) ==
    \E b \in {BtnUpdate(btn, now + gap, raw)} :
    \E s1 \in {LoopBody([now |-> now + gap, prev_pos |-> prev_pos,
                         shift_lock |-> shift_lock,
                         last_touch_zone |-> last_touch_zone,
                         press_start_ms |-> press_start_ms,
                         last_delete_ms |-> last_delete_ms,
                         delete_mode_active |-> delete_mode_active,
                         out |-> <<>>], b, st, x, curr)} :
    LET msec == now + gap
        dels == CountKey(s1.out, {"KEY_DELETE"})
        ents == CountKey(s1.out, EnterKeys)
        lastMS == IF \E i \in 1..Len(s1.out) : s1.out[i].key \in ModifierSensitive
                  THEN CHOOSE i \in 1..Len(s1.out) :
                         /\ s1.out[i].key \in ModifierSensitive
                         /\ \A j \in (i+1)..Len(s1.out) :
                                s1.out[j].key \notin ModifierSensitive
                  ELSE 0
        togAfter == Cardinality({i \in (lastMS+1)..Len(s1.out) :
                                    s1.out[i].key = "shift_toggle"})
    IN  /\ now' = s1.now
        /\ enc' = curr
        /\ prev_pos' = s1.prev_pos
        /\ shift_lock' = s1.shift_lock
        /\ last_touch_zone' = s1.last_touch_zone
        /\ press_start_ms' = s1.press_start_ms
        /\ last_delete_ms' = s1.last_delete_ms
        /\ delete_mode_active' = s1.delete_mode_active
        /\ t_state' = st
        /\ t_x' = x
        /\ btn' = b
        /\ out' = s1.out
        /\ lock_in' = shift_lock
        /\ init_pos' = init_pos
        /\ net' = net + CountKey(s1.out, RightKeys) - CountKey(s1.out, LeftKeys)
        /\ hold' = IF btn.press THEN U32Sub(msec, btn.lastChange) ELSE 0
        /\ entered' = IF wasPressed(b) THEN s1.delete_mode_active
                      ELSE (entered \/ dels > 0)
        /\ nDel' = IF wasPressed(b) THEN dels ELSE nDel + dels
        /\ nEnter' = IF wasPressed(b) THEN ents ELSE nEnter + ents
        /\ togs' = IF lastMS > 0 THEN togAfter ELSE togs + togAfter
        /\ steady' = (steady /\ gap = 0 /\ raw /\ st = "none" /\ curr = enc)
        /\ polls' = polls + 1
        /\ idle' = IF /\ curr = enc /\ st = "none" /\ ~raw /\ ~btn.press
                      /\ ~delete_mode_active
                   THEN (IF idle < MaxIdle THEN idle + 1 ELSE MaxIdle)
                   ELSE 0

\* One pass with the inputs drawn from the given sets
LoopOn(gaps, raws, states, xs, deltas) ==
    \E gap \in gaps, raw \in raws, st \in TouchNext(t_state) \cap states,
       x \in xs \cup {t_x}, d \in deltas :
          /\ (st \in {"none", "touch_end", "hold_end", "flick_end", "drag_end"})
                => (x = t_x)
          /\ Abs(enc + d) <= MaxEnc
          /\ Poll(gap, raw, st, x, enc + d)

\* The latency that lets the next pass begin on the next multiple of SlotMs,
\* and the same after one long wait
SlotGap == (SlotMs - ((now - BootMs) % SlotMs)) % SlotMs
SlotGaps == {SlotGap} \cup (IF now < BootMs + LongWait THEN {SlotGap + LongWait} ELSE {})

\* all inputs, the passes beginning on multiples of SlotMs
Loop ==
    /\ polls < MaxPolls
    /\ LoopOn(SlotGaps, BOOLEAN, TouchStates, TouchXs, Deltas)

\* the button and the clock, with encoder steps taking their time
LoopButton ==
    /\ polls < MaxButtonPolls
    /\ LoopOn(Gaps, BOOLEAN, {"none"}, {}, ButtonDeltas)

\* the button held down from the first pass on, one pass after the other
LoopHeld ==
    /\ steady
    /\ now < BootMs + HoldWindow
    /\ LoopOn({0}, {TRUE}, {"none"}, {}, {0})

Next == Loop

Spec == Init /\ [][Next]_vars

NextButton == LoopButton \/ LoopHeld

SpecButton == Init /\ [][NextButton]_vars

\* the touch in all its states and at the edges of the zones, one pass after
\* the other
LoopTouch ==
    /\ polls < MaxTouchPolls
    /\ LoopOn({0}, BOOLEAN, AllTouchStates, EdgeXs, TouchDeltas)

NextTouch == LoopTouch

SpecTouch == Init /\ [][NextTouch]_vars

\* The device idle since boot until millis() is about to wrap: every variable
\* as setup() left it, the clock WrapLead ms before 0
InitWrap ==
    /\ now = -WrapLead
    /\ enc \in InitPositions
    /\ prev_pos = enc
    /\ shift_lock = FALSE
    /\ last_touch_zone = ZONE_NONE
    /\ press_start_ms = 0
    /\ last_delete_ms = 0
    /\ delete_mode_active = FALSE
    /\ t_state = "none"
    /\ t_x = 0
    /\ btn = [press |-> FALSE, oldPress |-> FALSE, lastChange |-> 0, lastMsec |-> 0]
    /\ out = <<>>
    /\ lock_in = FALSE
    /\ init_pos = enc
    /\ net = 0
    /\ hold = 0
    /\ entered = FALSE
    /\ nDel = 0
    /\ nEnter = 0
    /\ togs = 0
    /\ steady = TRUE
    /\ polls = 0
    /\ idle = 0

\* the button across the wrap of millis()
LoopWrap ==
    /\ polls < MaxWrapPolls
    /\ LoopOn(WrapGaps, BOOLEAN, {"none"}, {}, {0})

NextWrap == LoopWrap

SpecWrap == InitWrap /\ [][NextWrap]_vars

----------------------------------------------------------------------------
(* Properties *)

Deletes(seq) == CountKey(seq, {"KEY_DELETE"})
Toggles(seq, lo, hi) ==
    Cardinality({i \in lo..hi : i <= Len(seq) /\ seq[i].key = "shift_toggle"})
\* index of the first modifier-sensitive key of seq, 0 when it has none
FirstSensitive(seq) ==
    IF \E i \in 1..Len(seq) : seq[i].key \in ModifierSensitive
    THEN CHOOSE i \in 1..Len(seq) :
           /\ seq[i].key \in ModifierSensitive
           /\ \A j \in 1..(i-1) : seq[j].key \notin ModifierSensitive
    ELSE 0
FirstStep(seq) ==
    IF \E i \in 1..Len(seq) : seq[i].key \in StepKeys
    THEN CHOOSE i \in 1..Len(seq) :
           /\ seq[i].key \in StepKeys
           /\ \A j \in 1..(i-1) : seq[j].key \notin StepKeys
    ELSE 0

\* C1: within one press Enter and Delete exclude each other: once long-press
\* mode was entered during a press, no Enter is emitted for that press, the
\* pass that sees the release included.
C1_EnterDeleteExclusive == ~(entered /\ nEnter > 0)

\* C2: a press released after being down less than 3000 ms gets exactly one
\* Enter, emitted by the pass that sees the release, and no Delete.
C2_ShortHoldOneEnter ==
    (wasReleased(btn) /\ hold < LONG_PRESS_MS) => (nEnter = 1 /\ nDel = 0)

\* C3: the first pass that finds the button down for at least 3000 ms (3000
\* included) enters long-press mode, emits exactly one Delete in that pass,
\* and leaves last_delete_ms at the time that Delete was sent.
C3_LongPressStartsOnce ==
    [][ (btn'.press /\ hold' >= LONG_PRESS_MS /\ hold < LONG_PRESS_MS)
        => /\ ~delete_mode_active
           /\ delete_mode_active'
           /\ Deletes(out') = 1
           /\ last_delete_ms' = now' - 1 ]_vars

C3_Witness ==
    btn.press /\ hold = LONG_PRESS_MS /\ delete_mode_active /\ Deletes(out) = 1

\* C4: in long-press mode with the button still down, a pass emits one more
\* Delete exactly when at least 500 ms have passed since last_delete_ms, and
\* then sets last_delete_ms to the time it read; a hold of 3000 ms + 1200 ms
\* seen by one pass after the other has then got exactly three Deletes.
C4_RepeatEvery500 ==
    [][ /\ (delete_mode_active /\ btn.press /\ btn'.press)
           => LET n == Deletes(out')
                  t == now' - 1 - 4 * n
              IN  /\ n <= 1
                  /\ (n = 1) = (U32Sub(t, last_delete_ms) >= REPEAT_MS)
                  /\ last_delete_ms' = IF n = 1 THEN t ELSE last_delete_ms
        /\ (steady' /\ btn'.press /\ hold' = LONG_PRESS_MS + 1200) => nDel' = 3
      ]_vars

C4_Witness == steady /\ btn.press /\ hold = LONG_PRESS_MS + 1200 /\ nDel = 3

\* C5: the pass that sees the release leaves long-press mode and emits no
\* Delete, and a Delete is only ever emitted by a pass that finds the button
\* down for at least 3000 ms.
C5_ReleaseStopsRepeat ==
    /\ wasReleased(btn) => (~delete_mode_active /\ Deletes(out) = 0)
    /\ ~btn.press => ~delete_mode_active
    /\ Deletes(out) > 0 => (btn.press /\ hold >= LONG_PRESS_MS)

C5_Witness == wasReleased(btn) /\ entered /\ nDel >= 2

\* C6: shift lock is one-shot.  Replaying what a pass emitted from the lock
\* it began with (a toggle flips the lock; a step or Enter goes out with shift
\* exactly when the lock is set, and clears it), every key carries the shift
\* the replay gives it and the replay ends in shift_lock.
RECURSIVE LatchRun(_, _, _)
LatchRun(seq, i, lock) ==
    IF i > Len(seq) THEN <<TRUE, lock>>
    ELSE IF seq[i].key = "shift_toggle" THEN LatchRun(seq, i + 1, ~lock)
    ELSE IF seq[i].key \in ModifierSensitive
         THEN (IF seq[i].shift = lock THEN LatchRun(seq, i + 1, FALSE)
               ELSE <<FALSE, lock>>)
    ELSE LatchRun(seq, i + 1, lock)

C6_ShiftLockOneShot == LatchRun(out, 1, lock_in) = <<TRUE, shift_lock>>

C6_Witness ==
    \E i, j \in 1..Len(out) :
        /\ i < j
        /\ out[i].key \in ModifierSensitive /\ out[i].shift
        /\ out[j].key \in ModifierSensitive /\ ~out[j].shift
        /\ ~shift_lock

\* C7: shift_lock is set exactly when an odd number of Shift touches came
\* since the last step or Enter, so two of them cancel; the next step or
\* Enter carries shift only after an odd number, and nothing else carries it.
C7_TwoTogglesCancel ==
    [][ LET k == FirstSensitive(out')
            pre == togs + Toggles(out', 1, IF k = 0 THEN Len(out') ELSE k - 1)
        IN  /\ k > 0 => (out'[k].shift = (pre % 2 = 1))
            /\ shift_lock' = (togs' % 2 = 1)
            /\ \A i \in 1..Len(out') :
                  out'[i].shift => out'[i].key \in ModifierSensitive
      ]_vars

C7_Witness == togs = 2 /\ ~shift_lock

C9_NoMotionLost ==
    /\ prev_pos - init_pos = TICKS_PER_STEP * net
    /\ Abs(enc - prev_pos) < TICKS_PER_STEP
    /\ (enc - init_pos) % TICKS_PER_STEP = 0 => TICKS_PER_STEP * net = enc - init_pos

C9_Witness == polls = 2 /\ enc - init_pos = -TICKS_PER_STEP /\ net = -1

\* C10, as claimed: a pass emits encoder steps first, then what the touch
\* drives, then what the button drives, so that a Shift touch of a pass
\* cannot change the shift of that pass's steps.
ClaimedRank(e) ==
    IF e.key \in StepKeys THEN 1
    ELSE IF e.key \in {"KEY_ESC", "shift_toggle"} THEN 2 ELSE 3

C10_EncoderFirst ==
    /\ \A i, j \in 1..Len(out) : i < j => ClaimedRank(out[i]) <= ClaimedRank(out[j])
    /\ FirstStep(out) > 0 => out[FirstStep(out)].shift = lock_in

\* C10, amended: a pass emits what the touch drives first, then the encoder
\* steps, then what the button drives; a Shift touch of a pass takes effect
\* before that pass's steps, so the first step goes out with shift exactly
\* when the touch left the lock set.
CodeRank(e) ==
    IF e.key \in {"KEY_ESC", "shift_toggle"} THEN 1
    ELSE IF e.key \in StepKeys THEN 2 ELSE 3

C10_TouchFirst ==
    /\ \A i, j \in 1..Len(out) : i < j => CodeRank(out[i]) <= CodeRank(out[j])
    /\ FirstStep(out) > 0 =>
          out[FirstStep(out)].shift = (lock_in # (Toggles(out, 1, Len(out)) = 1))

C10_Witness ==
    \E i, j, k \in 1..Len(out) :
        /\ i < j /\ j < k
        /\ out[i].key = "shift_toggle"
        /\ out[j].key \in StepKeys /\ out[j].shift
        /\ out[k].key \in EnterKeys

----------------------------------------------------------------------------
(* The touch zones *)

Escapes(seq) == CountKey(seq, {"KEY_ESC"})
EndStates == {"touch_end", "hold_end", "flick_end", "drag_end"}
InEscapeZone(x) == 0 <= x /\ x < DisplayWidth \div 2
InShiftZone(x) == DisplayWidth \div 2 <= x /\ x < DisplayWidth
\* what the touch of a pass did to the lock: the first step or Enter of the
\* pass, or else the end of the pass, finds the lock at the value v
LockSeenAs(seq, v, final) ==
    IF FirstSensitive(seq) = 0 THEN final = v
    ELSE seq[FirstSensitive(seq)].shift = v

\* C11: a touch begin at 0 <= x < w/2 emits exactly one Escape in that pass,
\* without shift, and does not change shift_lock; a touch begin at
\* w/2 <= x < w flips shift_lock in that pass and emits no key.
C11_TouchBeginFires ==
    t_state = "touch_begin" =>
        /\ InEscapeZone(t_x) =>
              /\ Escapes(out) = 1
              /\ out[1] = [key |-> "KEY_ESC", shift |-> FALSE]
              /\ Toggles(out, 1, Len(out)) = 0
              /\ LockSeenAs(out, lock_in, shift_lock)
        /\ InShiftZone(t_x) =>
              /\ Escapes(out) = 0
              /\ Toggles(out, 1, Len(out)) = 1
              /\ out[1].key = "shift_toggle"
              /\ LockSeenAs(out, ~lock_in, shift_lock)

C11_Witness ==
    /\ t_state = "touch_begin" /\ t_x = DisplayWidth \div 2
    /\ lock_in /\ ~shift_lock /\ Len(out) = 1

\* C12: only the begin of a touch fires: a pass that finds the touch in any
\* other state (still, held, moved, moved back into a zone, ended) emits no
\* Escape and does not toggle shift_lock.
C12_OnlyBeginFires ==
    [][ t_state' # "touch_begin" =>
            /\ Escapes(out') = 0
            /\ Toggles(out', 1, Len(out')) = 0
            /\ LockSeenAs(out', shift_lock, shift_lock')
      ]_vars

C12_Witness ==
    /\ t_state = "flick" /\ t_x = DisplayWidth - 1
    /\ last_touch_zone = ZONE_SHIFT /\ shift_lock /\ out = <<>>

\* C16, as claimed: the pass that sees a touch end emits nothing for the
\* touch and leaves last_touch_zone at None.
C16_ZoneNoneAtTouchEnd ==
    t_state \in EndStates =>
        /\ Escapes(out) = 0
        /\ Toggles(out, 1, Len(out)) = 0
        /\ last_touch_zone = ZONE_NONE

\* C16, amended: the pass that sees a touch end emits nothing for the touch
\* and leaves last_touch_zone at the zone of the coordinate the touch ended
\* at; last_touch_zone is None after every pass that finds no touch (state
\* none), the first of which comes after the touch end.
C16_ZoneKeptAtTouchEnd ==
    /\ t_state \in EndStates =>
          /\ Escapes(out) = 0
          /\ Toggles(out, 1, Len(out)) = 0
          /\ last_touch_zone = IF InEscapeZone(t_x) THEN ZONE_ESC
                                ELSE IF InShiftZone(t_x) THEN ZONE_SHIFT
                                ELSE ZONE_NONE
    /\ t_state = "none" => last_touch_zone = ZONE_NONE

C16_Witness ==
    t_state = "touch_end" /\ last_touch_zone = ZONE_ESC /\ out = <<>>

\* C18: a touch at x < 0 or x >= w is in zone None, and a touch begin there
\* emits no Escape and leaves shift_lock as it was.
C18_OutOfRangeIsNone ==
    (t_state # "none" /\ (t_x < 0 \/ t_x >= DisplayWidth)) =>
        /\ last_touch_zone = ZONE_NONE
        /\ Escapes(out) = 0
        /\ Toggles(out, 1, Len(out)) = 0
        /\ LockSeenAs(out, lock_in, shift_lock)

C18_Witness ==
    /\ t_state = "touch_begin" /\ t_x = DisplayWidth
    /\ shift_lock /\ out = <<>>

----------------------------------------------------------------------------
(* Idle passes *)

\* no raw input changed from the last pass to this one: the same encoder
\* count, no touch, the button up in both, outside long-press mode
NoRawChange ==
    /\ enc' = enc
    /\ t_state' = "none"
    /\ ~btn.press /\ ~btn'.press
    /\ ~delete_mode_active

\* C13, as claimed: a pass in which no raw input changed emits nothing and
\* leaves prev_pos, shift_lock, last_touch_zone, press_start_ms,
\* last_delete_ms and delete_mode_active unchanged.
C13_IdleKeepsAll ==
    [][ NoRawChange =>
            /\ out' = <<>>
            /\ UNCHANGED <<prev_pos, shift_lock, last_touch_zone, press_start_ms,
                           last_delete_ms, delete_mode_active>>
      ]_vars

\* C13, amended: a pass in which no raw input changed emits nothing and
\* leaves prev_pos, shift_lock, press_start_ms, last_delete_ms and
\* delete_mode_active unchanged, however often it is repeated; it leaves
\* last_touch_zone at None, which changes it only in the first such pass
\* after a touch end.
C13_IdleKeepsAllButZone ==
    [][ NoRawChange =>
            /\ out' = <<>>
            /\ UNCHANGED <<prev_pos, shift_lock, press_start_ms,
                           last_delete_ms, delete_mode_active>>
            /\ last_touch_zone' = ZONE_NONE
            /\ (t_state \notin EndStates => UNCHANGED last_touch_zone)
      ]_vars

C13_Witness ==
    idle = MaxIdle /\ out = <<>> /\ shift_lock /\ enc # prev_pos

----------------------------------------------------------------------------
(* The shift lock and the keys of a pass *)

Unlatched == {"KEY_ESC", "KEY_DELETE"}
WithoutUnlatched(seq) == SelectSeq(seq, LAMBDA e : e.key \notin Unlatched)

\* C14: Escape and Delete are not modifier-sensitive: each goes out without
\* shift whatever shift_lock is, and leaves shift_lock as it found it (a
\* pass that emits only such keys ends with the lock it began with, and in
\* any pass the lock ends as it would have without them).
C14_EscDeleteUnlatched ==
    /\ \A i \in 1..Len(out) : out[i].key \in Unlatched => ~out[i].shift
    /\ (\A i \in 1..Len(out) : out[i].key \in Unlatched) => shift_lock = lock_in
    /\ LatchRun(WithoutUnlatched(out), 1, lock_in) = <<TRUE, shift_lock>>

C14_Witness ==
    Deletes(out) > 0 /\ Escapes(out) > 0 /\ lock_in /\ shift_lock

\* C15: when a pass emits n >= 1 steps with shift_lock set as the steps
\* begin, only the first step goes out with shift, the lock is clear from
\* then on, and the other n - 1 steps go out unmodified in the same
\* direction.
C15_FirstStepOnly ==
    LET k == FirstStep(out)
        lockAtSteps == (lock_in # (Toggles(out, 1, Len(out)) % 2 = 1))
    IN  (k > 0 /\ lockAtSteps) =>
            /\ out[k].shift
            /\ out[k].key \in {"d", "a"}
            /\ \A i \in (k+1)..Len(out) :
                  /\ ~out[i].shift
                  /\ out[i].key \in StepKeys =>
                        out[i].key = IF out[k].key = "d" THEN "KEY_RIGHT_ARROW"
                                     ELSE "KEY_DOWN_ARROW"
            /\ ~shift_lock

C15_Witness ==
    /\ CountKey(out, StepKeys) = 2 /\ lock_in
    /\ out[1].key = "d" /\ out[1].shift
    /\ out[2].key = "KEY_RIGHT_ARROW" /\ ~out[2].shift

----------------------------------------------------------------------------
(* The button classifier *)

\* C17: a release seen outside long-press mode with press_start_ms = 0 has
\* its held time taken as 0, not computed from the clock: the pass emits one
\* Enter and no Delete, and press_start_ms stays 0.
C17_NoStartMeansZeroHold ==
    [][ (wasReleased(btn') /\ ~delete_mode_active /\ press_start_ms = 0) =>
            /\ CountKey(out', EnterKeys) = 1
            /\ Deletes(out') = 0
            /\ press_start_ms' = 0
      ]_vars

C17_Witness ==
    /\ wasReleased(btn) /\ hold > LONG_PRESS_MS /\ now > LONG_PRESS_MS
    /\ ~entered /\ nEnter = 1 /\ press_start_ms = 0

\* C19: after every pass delete_mode_active is set only with the button
\* down; a pass sets it only when it finds the button down for at least
\* 3000 ms, the pass that sees the release clears it, and it is clear in the
\* pass that sees the next press.
C19_DeleteModeOnlyWhileHeld ==
    [][ /\ delete_mode_active' => btn'.press
        /\ (~delete_mode_active /\ delete_mode_active')
              => (btn.press /\ hold' >= LONG_PRESS_MS)
        /\ wasReleased(btn') => ~delete_mode_active'
        /\ wasPressed(btn') => (~delete_mode_active /\ ~delete_mode_active')
      ]_vars

C19_Witness ==
    /\ wasReleased(btn) /\ entered /\ nDel = 1
    /\ ~delete_mode_active /\ last_delete_ms = 0

\* C20: no press is swallowed: by the pass that sees its release a press has
\* got at least one Delete if long-press mode was entered during it, and
\* otherwise exactly one Enter, emitted by that pass.
C20_NoPressSwallowed ==
    wasReleased(btn) =>
        IF entered THEN nDel >= 1
        ELSE (nEnter = 1 /\ CountKey(out, EnterKeys) = 1)

====
